---- MODULE Spec2Model ----
(***************************************************************************)
(* Model of src/src/parsing.py: the filing normalizer (clean_filing_text,  *)
(* tab_replace), the section extractor (clean_mda_text, clean_item1_text)  *)
(* and the batch drivers (clean_filings, extract_mda, extract_item1).      *)
(*                                                                         *)
(* A text is a sequence of characters; a character is a one-character      *)
(* string, except the few non-ASCII characters the code names, which are   *)
(* written as their Python escapes ("\\xa0" is the no-break space).        *)
(* The compiled patterns of parsing_patterns.py are not part of src/; the  *)
(* operators that stand for them follow spec.md section 4.1.               *)
(***************************************************************************)
EXTENDS Naturals, Sequences, FiniteSets

VARIABLES pc, txt, form_type, selected, counts, ret, fs, logs, reads, produced

vars == <<pc, txt, form_type, selected, counts, ret, fs, logs, reads, produced>>

(***************************************************************************)
(* Characters                                                              *)
(***************************************************************************)
NBSP == "\\xa0"
ZWSP == "\\u200b"
EACUTE == "\\xe9"
RSQUO == "\\u2019"
REGTM == "\\xae"

\* [A-Za-z]
AsciiLetter ==
  {"a","b","c","d","e","f","g","h","i","j","k","l","m","n","o","p","q","r",
   "s","t","u","v","w","x","y","z","A","B","C","D","E","F","G","H","I","J",
   "K","L","M","N","O","P","Q","R","S","T","U","V","W","X","Y","Z"}

\* [0-9]
AsciiDigit == {"0","1","2","3","4","5","6","7","8","9"}

\* \s of a Python 3 str pattern, and what str.strip() strips
Whitespace == {" ", "\t", "\n", "\r", "\f", NBSP}

Min(S) == CHOOSE x \in S : \A y \in S : x <= y

RECURSIVE Concat(_)
Concat(ss) == IF ss = <<>> THEN <<>> ELSE Head(ss) \o Concat(Tail(ss))

\* the sequences of at most n elements of S
SeqsUpTo(S, n) == UNION {[1..k -> S] : k \in 0..n}

(***************************************************************************)
(* Regular-expression machinery.  A pattern is given by its match length   *)
(* at each position (0: no match there; none of the patterns of parsing.py *)
(* matches the empty string).  re_sub is re.sub / Pattern.sub with a       *)
(* constant replacement: leftmost, non-overlapping matches, left to right. *)
(***************************************************************************)
RECURSIVE re_sub_from(_, _, _, _)
re_sub_from(mlen, repl, s, i) ==
  IF i > Len(s) THEN <<>>
  ELSE IF mlen[i] > 0 THEN repl \o re_sub_from(mlen, repl, s, i + mlen[i])
  ELSE <<s[i]>> \o re_sub_from(mlen, repl, s, i + 1)

re_sub(mlen, repl, s) == re_sub_from(mlen, repl, s, 1)

\* s[i..i+Len(lit)-1] = lit
LitAt(lit, s, i) ==
  /\ i + Len(lit) - 1 <= Len(s)
  /\ SubSeq(s, i, i + Len(lit) - 1) = lit

\* length of the maximal run of characters of class C starting at i
RECURSIVE RunLen(_, _, _)
RunLen(C, s, i) ==
  IF i > Len(s) \/ s[i] \notin C THEN 0 ELSE 1 + RunLen(C, s, i + 1)

\* first position >= i where lit occurs, 0 if none
Find(lit, s, i) ==
  LET at == {k \in i..Len(s) : LitAt(lit, s, k)}
  IN  IF at = {} THEN 0 ELSE Min(at)

\* str.strip()
RECURSIVE lstrip(_)
lstrip(s) == IF s # <<>> /\ Head(s) \in Whitespace THEN lstrip(Tail(s)) ELSE s

RECURSIVE rstrip(_)
rstrip(s) ==
  IF s # <<>> /\ s[Len(s)] \in Whitespace
  THEN rstrip(SubSeq(s, 1, Len(s) - 1)) ELSE s

strip(s) == rstrip(lstrip(s))

(***************************************************************************)
(* Patterns of parsing_patterns.py used by the section extractor           *)
(* (spec.md 4.1).  A section pattern runs from its heading up to, and not  *)
(* including, the next major heading, or to the end of the document.       *)
(***************************************************************************)
TABLE_OPEN == <<"[","T","A","B","L","E","]">>
TABLE_CLOSE == <<"[","/","T","A","B","L","E","]">>

Item7 == <<"I","t","e","m"," ","7">>
ITEM7 == <<"I","T","E","M"," ","7">>
Item8 == <<"I","t","e","m"," ","8">>
Item1 == <<"I","t","e","m"," ","1">>
Item2 == <<"I","t","e","m"," ","2">>
Item3 == <<"I","t","e","m"," ","3">>

PAT_10K_MDA1 == [start |-> Item7, end |-> Item8]
PAT_10K_MDA2 == [start |-> ITEM7, end |-> Item8]
PAT_10Q_MDA == [start |-> Item2, end |-> Item3]
PAT_ITEM1 == [start |-> Item1, end |-> Item2]

\* Pattern.finditer: the non-overlapping matches from position i on, in order
RECURSIVE finditer_from(_, _, _)
finditer_from(pat, s, i) ==
  LET b == Find(pat.start, s, i)
  IN  IF b = 0 THEN <<>>
      ELSE LET e == Find(pat.end, s, b + Len(pat.start))
               stop == IF e = 0 THEN Len(s) + 1 ELSE e
           IN  <<SubSeq(s, b, stop - 1)>> \o finditer_from(pat, s, stop)

finditer(pat, s) == finditer_from(pat, s, 1)

\* PAT_TAB2: a retained-table span, non-greedy, across lines
PAT_TAB2(s) ==
  [i \in 1..Len(s) |->
    IF LitAt(TABLE_OPEN, s, i)
    THEN LET e == Find(TABLE_CLOSE, s, i + Len(TABLE_OPEN))
         IN  IF e = 0 THEN 0 ELSE e + Len(TABLE_CLOSE) - i
    ELSE 0]

\* PAT_TOC1: a whole line made of a short label and a trailing page number
PAT_TOC1(s) ==
  [i \in 1..Len(s) |->
    IF i = 1 \/ s[i - 1] = "\n"
    THEN LET label == RunLen(AsciiLetter \cup {" "}, s, i)
             page == RunLen(AsciiDigit, s, i + label)
             eol == i + label + page
         IN  IF label > 0 /\ page > 0 /\ (eol > Len(s) \/ s[eol] = "\n")
             THEN label + page ELSE 0
    ELSE 0]

\* PAT_TOC2: a row of leader dots followed by a number
PAT_TOC2(s) ==
  [i \in 1..Len(s) |->
    LET dots == RunLen({"."}, s, i)
        gap == RunLen({" ", "\t"}, s, i + dots)
        page == RunLen(AsciiDigit, s, i + dots + gap)
    IN  IF dots >= 2 /\ page > 0 THEN dots + gap + page ELSE 0]

(***************************************************************************)
(* Section extractor: the post-processing of the selected candidate        *)
(***************************************************************************)
\* r'(\_{2,}|\-{2,}|={2,})'
PAT_SEP(s) ==
  [i \in 1..Len(s) |->
    IF s[i] \in {"_", "-", "="}
    THEN LET n == RunLen({s[i]}, s, i) IN IF n >= 2 THEN n ELSE 0
    ELSE 0]

\* r'(\s{1,})'
PAT_WS(s) == [i \in 1..Len(s) |-> RunLen(Whitespace, s, i)]

\* the step written with r'(\s*)': an empty match is replaced too
RECURSIVE collapse_ws_star_from(_, _)
collapse_ws_star_from(s, i) ==
  IF i > Len(s) THEN <<" ">>
  ELSE IF RunLen(Whitespace, s, i) > 0
       THEN <<" ">> \o collapse_ws_star_from(s, i + RunLen(Whitespace, s, i))
       ELSE <<" ", s[i]>> \o collapse_ws_star_from(s, i + 1)

collapse_ws_star(s) == collapse_ws_star_from(s, 1)

\* the step written with r'( {1,})': only runs of the space character
collapse_ws_blank(s) ==
  re_sub([i \in 1..Len(s) |-> RunLen({" "}, s, i)], <<" ">>, s)

\* re.sub(r'(\s{1,})', ' ', ...)
collapse_ws(s) == re_sub(PAT_WS(s), <<" ">>, s)

PunctMark == {",", ";", ".", RSQUO, REGTM}

\* re.sub(r' (,|;|\.|\u2019|\xae) ', r'\1 ', ...): a match is dropped of its first
\* character and the scan goes on after the match
RECURSIVE repair_punct_from(_, _)
repair_punct_from(s, i) ==
  IF i > Len(s) THEN <<>>
  ELSE IF /\ i + 2 <= Len(s)
          /\ s[i] = " "
          /\ s[i + 1] \in PunctMark
          /\ s[i + 2] = " "
       THEN <<s[i + 1], " ">> \o repair_punct_from(s, i + 3)
       ELSE <<s[i]>> \o repair_punct_from(s, i + 1)

repair_punct(s) == repair_punct_from(s, 1)

COMMENT_END == <<"\"", " ", "-", "-", ">">>

\* re.sub(r'^(.*?)" -->', '', ...): only at the start of the string, the
\* shortest prefix without a line break that ends in the token
strip_comment(s) ==
  LET at == {k \in 1..Len(s) :
               /\ LitAt(COMMENT_END, s, k)
               /\ \A j \in 1..(k - 1) : s[j] # "\n"}
  IN  IF at = {} THEN s
      ELSE SubSeq(s, Min(at) + Len(COMMENT_END), Len(s))

\* lines 79-84 (clean_mda_text) and 94-99 (clean_item1_text)
postprocess(cand) ==
  LET a == re_sub(PAT_TOC1(cand), <<" ">>, cand)
      b == re_sub(PAT_TOC2(a), <<" ">>, a)
      c == re_sub(PAT_SEP(b), <<" ">>, b)
      d == collapse_ws(c)
      e == repair_punct(d)
  IN  strip_comment(e)

(***************************************************************************)
(* Section extractor: the selection of the candidate                       *)
(***************************************************************************)
\* the loop written with >=: a later candidate of equal length replaces
RECURSIVE longest_ge(_, _)
longest_ge(mda, matches) ==
  IF matches = <<>> THEN mda
  ELSE longest_ge(IF Len(Head(matches)) >= Len(mda) THEN Head(matches) ELSE mda,
                  Tail(matches))

\* for match in <pattern>.finditer(txt): if len(match) > len(mda): mda = match
RECURSIVE longest(_, _)
longest(mda, matches) ==
  IF matches = <<>> THEN mda
  ELSE longest(IF Len(Head(matches)) > Len(mda) THEN Head(matches) ELSE mda,
               Tail(matches))

\* the selection written with else in place of elif form_type == '10-q'
mda_selected_else(t, ft) ==
  LET s == re_sub(PAT_TAB2(t), <<>>, t)
  IN  IF ft = "10-k"
      THEN longest(longest(<<>>, finditer(PAT_10K_MDA1, s)),
                   finditer(PAT_10K_MDA2, s))
      ELSE longest(<<>>, finditer(PAT_10Q_MDA, s))

\* the candidate clean_mda_text selects (its variable mda at line 78)
mda_selected(t, ft) ==
  LET s == re_sub(PAT_TAB2(t), <<>>, t)
  IN  IF ft = "10-k"
      THEN longest(longest(<<>>, finditer(PAT_10K_MDA1, s)),
                   finditer(PAT_10K_MDA2, s))
      ELSE IF ft = "10-q"
      THEN longest(<<>>, finditer(PAT_10Q_MDA, s))
      ELSE <<>>

clean_mda_text(t, ft) == postprocess(mda_selected(t, ft))

\* the candidate clean_item1_text selects (its variable item1 at line 93)
item1_selected(t) ==
  LET s == re_sub(PAT_TAB2(t), <<>>, t)
  IN  longest(<<>>, finditer(PAT_ITEM1, s))

clean_item1_text(t) == postprocess(item1_selected(t))

(***************************************************************************)
(* The section extractor called on one document                            *)
(***************************************************************************)
\* --form-type: 8-k, 10-k, 10-k/a, 10-q, 10-q/a
FormTypes == {"8-k", "10-k", "10-k/a", "10-q", "10-q/a"}

MaxSelPieces == 3
MaxPostPieces == 3

\* documents made of headings, text and retained-table markers
SelPieces == {Item7, ITEM7, Item8, Item1, Item2, <<"a">>, TABLE_OPEN, TABLE_CLOSE}

\* an annual MD&A section whose body mixes text, white space, punctuation,
\* leader dots, page numbers, separator rules and a comment end
PostPieces ==
  {<<"a">>, <<" ">>, <<"\n">>, <<"\t">>, <<" ", ",">>, <<".">>, <<"-">>,
   <<"1">>, COMMENT_END}

ExtractInputs ==
  {Concat(ps) : ps \in SeqsUpTo(SelPieces, MaxSelPieces)}
  \cup {Item7 \o Concat(ps) : ps \in SeqsUpTo(PostPieces, MaxPostPieces)}

NoFiles == [p \in {} |-> <<>>]

InitExtract ==
  /\ pc = "document"
  /\ txt \in ExtractInputs
  /\ form_type = "10-k"
  /\ selected = <<>>
  /\ counts = <<0, 0>>
  /\ ret = <<>>
  /\ fs = NoFiles
  /\ logs = <<>>
  /\ reads = {}
  /\ produced = {}

\* mda = clean_mda_text(txt, form_type)   (extract_mda, line 161)
CallCleanMda(ft) ==
  /\ pc = "document"
  /\ pc' = "clean_mda_text"
  /\ form_type' = ft
  /\ selected' = mda_selected(txt, ft)
  /\ ret' = clean_mda_text(txt, ft)
  /\ UNCHANGED <<txt, counts, fs, logs, reads, produced>>

\* item1 = clean_item1_text(txt)   (extract_item1 run with form type ft,
\* line 197)
CallCleanItem1(ft) ==
  /\ pc = "document"
  /\ pc' = "clean_item1_text"
  /\ form_type' = ft
  /\ selected' = item1_selected(txt)
  /\ ret' = clean_item1_text(txt)
  /\ UNCHANGED <<txt, counts, fs, logs, reads, produced>>

NextExtract ==
  \/ \E ft \in FormTypes : CallCleanMda(ft)
  \/ \E ft \in FormTypes : CallCleanItem1(ft)

SpecExtract == InitExtract /\ [][NextExtract]_vars

(***************************************************************************)
(* Claims about the section extractor, checked under SpecExtract           *)
(***************************************************************************)
Returned == pc \in {"clean_mda_text", "clean_item1_text"}

\* the candidates of the applicable patterns in scan order: pattern by
\* pattern as declared, each pattern's matches by position
ScanOrder ==
  LET s == re_sub(PAT_TAB2(txt), <<>>, txt)
  IN  IF pc = "clean_item1_text" THEN finditer(PAT_ITEM1, s)
      ELSE IF form_type = "10-k"
      THEN finditer(PAT_10K_MDA1, s) \o finditer(PAT_10K_MDA2, s)
      ELSE IF form_type = "10-q" THEN finditer(PAT_10Q_MDA, s)
      ELSE <<>>

\* C1: the candidate that goes into post-processing has maximum length among
\* the candidates, and is the earliest in scan order of those of that length.
C1_LongestEarliest ==
  Returned =>
    LET c == ScanOrder
    IN  IF c = <<>> THEN selected = <<>>
        ELSE \E k \in 1..Len(c) :
               /\ selected = c[k]
               /\ \A j \in 1..Len(c) : Len(c[j]) <= Len(c[k])
               /\ \A j \in 1..(k - 1) : Len(c[j]) < Len(c[k])

\* C1 witness: two different candidates tie at the maximum length and the
\* earlier one was selected.
C1_TieKeptEarliest ==
  /\ pc = "clean_mda_text"
  /\ LET c == ScanOrder
     IN  \E j, k \in 1..Len(c) :
            /\ j < k
            /\ Len(c[j]) = Len(c[k])
            /\ c[j] # c[k]
            /\ \A i \in 1..Len(c) : Len(c[i]) <= Len(c[j])
            /\ selected = c[j]

C5_NoMatchEmpty ==
  Returned /\ ScanOrder = <<>> => ret = <<>>

\* C5 witness: a 10-k text with content and no MD&A heading went through
\* clean_mda_text and came back empty.
C5_NoHeadingReturnedEmpty ==
  /\ pc = "clean_mda_text"
  /\ form_type = "10-k"
  /\ Len(txt) > 1
  /\ ScanOrder = <<>>
  /\ ret = <<>>

\* space, mark, space
HasSpacedMark(s) ==
  \E i \in 1..Len(s) :
    /\ i + 2 <= Len(s)
    /\ s[i] = " "
    /\ s[i + 1] \in PunctMark
    /\ s[i + 2] = " "

\* C7: every mark that stands between two spaces in the whitespace-collapsed
\* candidate has lost the space before it in the excerpt, also when several
\* such marks follow one another separated by single spaces; so the excerpt
\* holds no mark between two spaces.
C7_EveryMarkRepaired ==
  Returned => ~HasSpacedMark(ret)

\* C8: the returned excerpt holds no whitespace character other than the
\* space and no two adjacent spaces.
C8_SingleSpacesOnly ==
  Returned =>
    /\ \A i \in 1..Len(ret) : ret[i] \in Whitespace => ret[i] = " "
    /\ \A i \in 1..(Len(ret) - 1) : ~(ret[i] = " " /\ ret[i + 1] = " ")

\* C8 witness: the selected candidate held a tab or line break next to
\* another whitespace character and a mark between spaces, and an excerpt
\* with text was returned.
C8_MixedWhitespaceCollapsed ==
  /\ pc = "clean_mda_text"
  /\ \E i \in 1..(Len(selected) - 1) :
       /\ selected[i] \in {"\t", "\n"}
       /\ selected[i + 1] \in Whitespace
  /\ HasSpacedMark(collapse_ws(selected))
  /\ Len(ret) > 2

(***************************************************************************)
(* Normalizer: patterns of parsing_patterns.py (spec.md 4.1)               *)
(***************************************************************************)
P_TAG == <<"<", "P", ">">>
BR_TAG == <<"<", "B", "R", ">">>
TABLE_TAG == <<"<", "T", "A", "B", "L", "E", ">">>
TABLE_END_TAG == <<"<", "/", "T", "A", "B", "L", "E", ">">>

\* a pattern that matches one literal
PAT_LIT(lit, s) ==
  [i \in 1..Len(s) |-> IF LitAt(lit, s, i) THEN Len(lit) ELSE 0]

\* PAT_MU1: the ordered markup-unwrap rules (paragraph breaks, line breaks)
PAT_MU1 == <<P_TAG, BR_TAG>>

\* PAT_MU2: any remaining tag, from < to the next >
PAT_MU2(s) ==
  [i \in 1..Len(s) |->
    IF s[i] = "<"
    THEN LET e == Find(<<">">>, s, i + 1)
         IN  IF e = 0 THEN 0 ELSE e + 1 - i
    ELSE 0]

\* PAT_TAB1: a table from its start tag to the next end tag, across lines
PAT_TAB1(s) ==
  [i \in 1..Len(s) |->
    IF LitAt(TABLE_TAG, s, i)
    THEN LET e == Find(TABLE_END_TAG, s, i + Len(TABLE_TAG))
         IN  IF e = 0 THEN 0 ELSE e + Len(TABLE_END_TAG) - i
    ELSE 0]

(***************************************************************************)
(* Normalizer: tab_replace                                                 *)
(***************************************************************************)
nbsp == <<"n", "b", "s", "p">>

\* the letter pattern without its nbsp alternative: '[^A-Za-z]'
PAT_NOT_LETTER_only(s) ==
  [i \in 1..Len(s) |-> IF s[i] \notin AsciiLetter THEN 1 ELSE 0]

\* '[^A-Za-z]|nbsp': the alternatives are tried in this order
PAT_NOT_LETTER(s) ==
  [i \in 1..Len(s) |->
    IF s[i] \notin AsciiLetter THEN 1
    ELSE IF LitAt(nbsp, s, i) THEN Len(nbsp)
    ELSE 0]

\* '[^0-9]|nbsp'
PAT_NOT_DIGIT(s) ==
  [i \in 1..Len(s) |->
    IF s[i] \notin AsciiDigit THEN 1
    ELSE IF LitAt(nbsp, s, i) THEN Len(nbsp)
    ELSE 0]

\* tab_content = PAT_MU2.sub('\n', match.group(0))
tab_content(span) == re_sub(PAT_MU2(span), <<"\n">>, span)

\* c = len(re.sub('[^A-Za-z]|nbsp', '', tab_content))
letter_count(span) ==
  Len(re_sub(PAT_NOT_LETTER(tab_content(span)), <<>>, tab_content(span)))

\* d = len(re.sub('[^0-9]|nbsp', '', tab_content))
digit_count(span) ==
  Len(re_sub(PAT_NOT_DIGIT(tab_content(span)), <<>>, tab_content(span)))

\* the comparison written num_ratio <= tab_ratio
tab_replace_le(span) ==
  LET c == letter_count(span)
      d == digit_count(span)
  IN  IF c + d = 0 THEN <<>>
      ELSE IF 10 * d <= c + d THEN TABLE_OPEN \o span \o TABLE_CLOSE
      ELSE <<>>

\* tab_replace(match) with match.group(0) = span and tab_ratio = 0.1.
\* d / (c + d) raises ZeroDivisionError when c + d = 0, and the except
\* clause returns ''; otherwise d / (c + d) < 0.1 is 10 * d < c + d (the
\* quotient of two counts rounds to the double 0.1 only when it is 1/10).
tab_replace(span) ==
  LET c == letter_count(span)
      d == digit_count(span)
  IN  IF c + d = 0 THEN <<>>
      ELSE IF 10 * d < c + d THEN TABLE_OPEN \o span \o TABLE_CLOSE
      ELSE <<>>

(***************************************************************************)
(* tab_replace called on one table span                                    *)
(***************************************************************************)
MaxTabPieces == 3

TabPieces ==
  {<<"a">>, <<"a","a","a","a","a","a","a","a","a">>, <<"1">>, nbsp, <<"n">>,
   <<EACUTE>>, <<" ">>, <<"<", "b", ">">>}

TabInputs ==
  {TABLE_TAG \o Concat(ps) \o TABLE_END_TAG :
     ps \in SeqsUpTo(TabPieces, MaxTabPieces)}

InitTab ==
  /\ pc = "table span"
  /\ txt \in TabInputs
  /\ form_type = "10-k"
  /\ selected = <<>>
  /\ counts = <<0, 0>>
  /\ ret = <<>>
  /\ fs = NoFiles
  /\ logs = <<>>
  /\ reads = {}
  /\ produced = {}

\* PAT_TAB1.sub(tab_replace, txt) calls tab_replace on the span (line 57)
CallTabReplace ==
  /\ pc = "table span"
  /\ pc' = "tab_replace"
  /\ counts' = <<letter_count(txt), digit_count(txt)>>
  /\ ret' = tab_replace(txt)
  /\ UNCHANGED <<txt, form_type, selected, fs, logs, reads, produced>>

NextTab == CallTabReplace

SpecTab == InitTab /\ [][NextTab]_vars

\* number of positions of s that hold a character of class C
CountIn(C, s) == Cardinality({i \in 1..Len(s) : s[i] \in C})

\* number of occurrences of lit in s
Occurrences(lit, s) == Cardinality({i \in 1..Len(s) : LitAt(lit, s, i)})

\* C2: a span with letter count c and digit count d is replaced by the empty
\* string when c + d = 0 or d / (c + d) >= 0.1, and is otherwise kept
\* unchanged between [TABLE] and [/TABLE].
C2_DensityThreshold ==
  pc = "tab_replace" =>
    LET c == counts[1]
        d == counts[2]
    IN  ret = IF c + d = 0 \/ 10 * d >= c + d
              THEN <<>>
              ELSE <<"[","T","A","B","L","E","]">> \o txt
                     \o <<"[","/","T","A","B","L","E","]">>

\* C2 witness: a span with exactly 1 digit and 9 letters was dropped.
C2_BoundaryDropped ==
  /\ pc = "tab_replace"
  /\ counts = <<9, 1>>
  /\ ret = <<>>

\* C3 as stated: the letter count is the number of alphabetic characters of
\* the table content and the digit count the number of its numeric
\* characters, whatever surrounds them (read here in the narrowest way: the
\* letters A-Z and a-z, the digits 0-9).
C3_CountsAllLetters ==
  pc = "tab_replace" =>
    /\ counts[1] = CountIn(AsciiLetter, tab_content(txt))
    /\ counts[2] = CountIn(AsciiDigit, tab_content(txt))

\* C3 amended: the letter count is the number of letters A-Z and a-z of the
\* table content that are not part of an occurrence of the lower-case
\* sequence nbsp (four less per occurrence), and the digit count is the
\* number of its digits 0-9; every other character counts in neither.
C3_CountsAsciiLettersOutsideNbsp ==
  pc = "tab_replace" =>
    /\ counts[1] + 4 * Occurrences(nbsp, tab_content(txt))
         = CountIn(AsciiLetter, tab_content(txt))
    /\ counts[2] = CountIn(AsciiDigit, tab_content(txt))

\* C3 witness: the content held the sequence nbsp beside other letters and a
\* digit, and the counts were taken.
C3_NbspBesideLetters ==
  /\ pc = "tab_replace"
  /\ Occurrences(nbsp, tab_content(txt)) = 1
  /\ counts[1] >= 1
  /\ counts[2] = 1

(***************************************************************************)
(* Normalizer: clean_filing_text                                           *)
(***************************************************************************)
\* html.entities.html5 restricted to the names that the letters a, m and p
\* spell (the letters that follow an ampersand in the texts considered)
Html5 ==
  { <<<<"a","m","p">>, <<"&">>>>,
    <<<<"a","m","p",";">>, <<"&">>>>,
    <<<<"a","p",";">>, <<"\\u2248">>>>,
    <<<<"m","a","p",";">>, <<"\\u21a6">>>>,
    <<<<"m","p",";">>, <<"\\u2213">>>>,
    <<<<"p","m",";">>, <<"\\xb1">>>> }

InHtml5(name) == \E e \in Html5 : e[1] = name

Html5Value(name) == (CHOOSE e \in Html5 : e[1] = name)[2]

\* the characters a named reference may not hold: [\t\n\f <&#;]
CharrefStop == {"\t", "\n", "\f", " ", "<", "&", "#", ";"}

RECURSIVE NameRun(_, _)
NameRun(s, i) ==
  IF i > Len(s) \/ s[i] \in CharrefStop THEN 0 ELSE 1 + NameRun(s, i + 1)

\* html._replace_charref for a named reference
replace_charref(name) ==
  IF InHtml5(name) THEN Html5Value(name)
  ELSE LET xs == {x \in 2..(Len(name) - 1) : InHtml5(SubSeq(name, 1, x))}
       IN  IF xs = {} THEN <<"&">> \o name
           ELSE LET x == CHOOSE y \in xs : \A z \in xs : z <= y
                IN  Html5Value(SubSeq(name, 1, x))
                      \o SubSeq(name, x + 1, Len(name))

RECURSIVE unescape_from(_, _)
unescape_from(s, i) ==
  IF i > Len(s) THEN <<>>
  ELSE IF s[i] = "&" /\ NameRun(s, i + 1) > 0
       THEN LET run == NameRun(s, i + 1)
                n == IF run > 32 THEN 32 ELSE run
                semi == IF i + n + 1 <= Len(s) /\ s[i + n + 1] = ";"
                        THEN 1 ELSE 0
            IN  replace_charref(SubSeq(s, i + 1, i + n + semi))
                  \o unescape_from(s, i + n + semi + 1)
       ELSE <<s[i]>> \o unescape_from(s, i + 1)

\* html.unescape: _charref.sub(_replace_charref, s) with
\* _charref = &(#[0-9]+;?|#[xX][0-9a-fA-F]+;?|[^\t\n\f <&#;]{1,32};?);
\* the texts considered hold no numeric reference
unescape(s) == unescape_from(s, 1)

\* for v in PAT_MU1.values(): txt = v.sub('\n', txt)
RECURSIVE unwrap(_, _)
unwrap(rules, s) ==
  IF rules = <<>> THEN s
  ELSE unwrap(Tail(rules), re_sub(PAT_LIT(Head(rules), s), <<"\n">>, s))

\* PAT_TAB1.sub(tab_replace, txt)
RECURSIVE sub_tables_from(_, _, _)
sub_tables_from(mlen, s, i) ==
  IF i > Len(s) THEN <<>>
  ELSE IF mlen[i] > 0
       THEN tab_replace(SubSeq(s, i, i + mlen[i] - 1))
              \o sub_tables_from(mlen, s, i + mlen[i])
       ELSE <<s[i]>> \o sub_tables_from(mlen, s, i + 1)

sub_tables(s) == sub_tables_from(PAT_TAB1(s), s, 1)

\* r'\xa0|\u200b'
PAT_SPECIAL_SPACE(s) ==
  [i \in 1..Len(s) |-> IF s[i] \in {NBSP, ZWSP} THEN 1 ELSE 0]

\* r'(\n\s*){3,}': from a line break, the whole run of white space when it
\* holds three line breaks or more
PAT_BLANK_LINES(s) ==
  [i \in 1..Len(s) |->
    IF s[i] = "\n"
    THEN LET w == RunLen(Whitespace, s, i)
         IN  IF CountIn({"\n"}, SubSeq(s, i, i + w - 1)) >= 3 THEN w ELSE 0
    ELSE 0]

\* lines 54-58: unwrap, decode, classify the tables, unwrap what is left
markup_steps(t) ==
  LET a == unwrap(PAT_MU1, t)
      b == unescape(a)
      c == sub_tables(b)
  IN  re_sub(PAT_MU2(c), <<"\n">>, c)

\* re.sub(r'(\n\s*){3,}', '\n\n', txt).strip()
collapse_blank_lines(s) == strip(re_sub(PAT_BLANK_LINES(s), <<"\n", "\n">>, s))

\* lines 59 and 60 in the other order
space_steps_swapped(s) ==
  strip(re_sub(PAT_SPECIAL_SPACE(collapse_blank_lines(s)), <<"\n">>,
               collapse_blank_lines(s)))

\* lines 59-60
space_steps(s) ==
  collapse_blank_lines(strip(re_sub(PAT_SPECIAL_SPACE(s), <<"\n">>, s)))

clean_filing_text(t) == space_steps(markup_steps(t))

(***************************************************************************)
(* clean_filing_text run on a filing, and run again on its own result (a   *)
(* second clean_filings run reads the file the first one wrote)            *)
(***************************************************************************)
MaxNormPieces == 3

NormPieces ==
  {<<"&">>, <<"a","m","p",";">>, P_TAG, TABLE_TAG, TABLE_END_TAG, <<"a">>,
   <<"1">>, <<"\n">>, <<" ">>, <<NBSP>>}

\* free texts, and texts framed by a letter on each side
NormInputs ==
  LET bodies == {Concat(ps) : ps \in SeqsUpTo(NormPieces, MaxNormPieces)}
  IN  bodies \cup {<<"a">> \o b \o <<"a">> : b \in bodies}

InitNorm ==
  /\ pc = "filing text"
  /\ txt \in NormInputs
  /\ form_type = "10-k"
  /\ selected = <<>>
  /\ counts = <<0, 0>>
  /\ ret = <<>>
  /\ fs = NoFiles
  /\ logs = <<>>
  /\ reads = {}
  /\ produced = {}

\* txt = clean_filing_text(txt)   (clean_filings, line 125)
CallCleanFiling ==
  /\ pc = "filing text"
  /\ pc' = "clean_filing_text"
  /\ ret' = clean_filing_text(txt)
  /\ UNCHANGED <<txt, form_type, selected, counts, fs, logs, reads, produced>>

\* the same call on the text the first call returned; selected keeps the
\* first result
CallCleanFilingAgain ==
  /\ pc = "clean_filing_text"
  /\ pc' = "clean_filing_text twice"
  /\ selected' = ret
  /\ ret' = clean_filing_text(ret)
  /\ UNCHANGED <<txt, form_type, counts, fs, logs, reads, produced>>

NextNorm == CallCleanFiling \/ CallCleanFilingAgain

SpecNorm == InitNorm /\ [][NextNorm]_vars

\* C6 as stated: a second pass of clean_filing_text changes nothing.
C6_Idempotent ==
  pc = "clean_filing_text twice" => ret = selected

\* C6 amended: a second pass changes nothing when the first result holds
\* nothing for the markup steps to rewrite (no character reference that
\* html.unescape decodes, no unwrap-rule match, no table span, no tag); the
\* special-space replacement, blank-line collapse and stripping change
\* nothing on a second pass.
C6_IdempotentOnceMarkupFree ==
  pc = "clean_filing_text twice" /\ markup_steps(selected) = selected
    => ret = selected

\* C6 witness: the first pass rewrote a text that held a tag or a table and
\* left a result with a line break in it, and the second pass ran on a
\* result free of markup.
C6_SecondPassOnCleanText ==
  /\ pc = "clean_filing_text twice"
  /\ Find(<<"<">>, txt, 1) > 0
  /\ selected # txt
  /\ Find(<<"\n">>, selected, 1) > 0
  /\ markup_steps(selected) = selected
  /\ ret = selected

(***************************************************************************)
(* Batch drivers.  A file is output/filings/<form>/<year>/q<qtr>/<name>.txt *)
(* with <name> given as its underscore-separated parts: <<"a">> is a.txt,   *)
(* <<"a", "mda">> is a_mda.txt.  fs maps the files that exist to their      *)
(* text; logs is what the runs appended to the log files, in order; reads   *)
(* is the list of filings of the latest run; produced records what the runs *)
(* wrote.                                                                   *)
(***************************************************************************)
\* re.search('_', str(f)): no directory of the path holds an underscore
HasUnderscore(f) == Len(f.stem) > 1

\* Path(filing.parent, f'{filing.stem}_<kind>.txt')
ArtifactPath(f, kind) == [f EXCEPT !.stem = Append(f.stem, kind)]

\* itertools.product(range(start, end + 1), range(1, 4 + 1))
Quarters(start, end) ==
  [k \in 1..(IF end >= start THEN 4 * (end - start + 1) ELSE 0) |->
    [year |-> start + ((k - 1) \div 4), qtr |-> ((k - 1) % 4) + 1]]

\* path_filings_dir.rglob('*.txt')
InDir(files, ft, d) ==
  {f \in DOMAIN files : f.form = ft /\ f.year = d.year /\ f.qtr = d.qtr}

\* the list without its filter: every .txt file of the directory
filings_unfiltered(files, ft, d) == InDir(files, ft, d)

\* filings = [f for f in ...rglob('*.txt') if not re.search('_', str(f))]
filings(files, ft, d) == {f \in InDir(files, ft, d) : ~HasUnderscore(f)}

\* f.write(...) on a path
WriteFile(files, f, text) ==
  [g \in DOMAIN files \cup {f} |-> IF g = f THEN text ELSE files[g]]

LogRecord(ft, name, target, text) ==
  [file |-> <<ft, name>>, target |-> target, length |-> Len(text)]

\* clean_filings, lines 122-130, for one filing
clean_filings_one(st, ft, f) ==
  LET text == clean_filing_text(st.fs[f])
  IN  [st EXCEPT
         !.fs = WriteFile(st.fs, f, text),
         !.logs = Append(st.logs, LogRecord(ft, "log_parse.txt", f, text)),
         !.produced = st.produced \cup {[path |-> f, kind |-> "normalized"]}]

\* the body of extract_mda without if not path_mda.exists()
extract_mda_one_always(st, ft, f) ==
  LET path_mda == ArtifactPath(f, "mda")
      mda == clean_mda_text(st.fs[f], ft)
  IN  [st EXCEPT
         !.fs = WriteFile(st.fs, path_mda, mda),
         !.logs = Append(st.logs,
                         LogRecord(ft, "log_extract_mda.txt", path_mda, mda)),
         !.produced = st.produced \cup {[path |-> path_mda, kind |-> "mda"]}]

\* extract_mda, lines 156-167, for one filing
extract_mda_one(st, ft, f) ==
  LET path_mda == ArtifactPath(f, "mda")
      mda == clean_mda_text(st.fs[f], ft)
  IN  IF path_mda \in DOMAIN st.fs THEN st
      ELSE [st EXCEPT
              !.fs = WriteFile(st.fs, path_mda, mda),
              !.logs = Append(st.logs,
                              LogRecord(ft, "log_extract_mda.txt", path_mda,
                                        mda)),
              !.produced =
                st.produced \cup {[path |-> path_mda, kind |-> "mda"]}]

\* extract_item1, lines 193-203, for one filing
extract_item1_one(st, ft, f) ==
  LET path_item1 == ArtifactPath(f, "item1")
      item1 == clean_item1_text(st.fs[f])
  IN  IF path_item1 \in DOMAIN st.fs THEN st
      ELSE [st EXCEPT
              !.fs = WriteFile(st.fs, path_item1, item1),
              !.logs = Append(st.logs,
                              LogRecord(ft, "log_extract_item1.txt",
                                        path_item1, item1)),
              !.produced =
                st.produced \cup {[path |-> path_item1, kind |-> "item1"]}]

one_filing(op, st, ft, f) ==
  IF op = "clean_filings" THEN clean_filings_one(st, ft, f)
  ELSE IF op = "extract_mda" THEN extract_mda_one(st, ft, f)
  ELSE extract_item1_one(st, ft, f)

\* a directory's list in the order the directory gives it
RECURSIVE InOrder(_)
InOrder(S) ==
  IF S = {} THEN <<>>
  ELSE LET f == CHOOSE g \in S : TRUE IN <<f>> \o InOrder(S \ {f})

\* for year, qtr in itertools.product(...): filings = [...]: the filings in
\* the order the run handles them.  A directory is listed when the loop
\* reaches it; until then the run has written only in other directories, so
\* the list is that of the files present when the run starts.
RECURSIVE listing(_, _, _, _)
listing(files, ft, qs, k) ==
  IF k > Len(qs) THEN <<>>
  ELSE InOrder(filings(files, ft, qs[k])) \o listing(files, ft, qs, k + 1)

\* for filing in tqdm(filings): ...
RECURSIVE each_filing(_, _, _, _, _)
each_filing(op, st, ft, todo, k) ==
  IF k > Len(todo) THEN st
  ELSE each_filing(op, one_filing(op, st, ft, todo[k]), ft, todo, k + 1)

run(op, start, end, ft) ==
  LET todo == listing(fs, ft, Quarters(start, end), 1)
      st0 == [fs |-> fs, logs |-> logs, produced |-> produced,
              listed |-> {todo[k] : k \in 1..Len(todo)}]
  IN  each_filing(op, st0, ft, todo, 1)

(***************************************************************************)
(* Runs of the three operations over a corpus                              *)
(***************************************************************************)
MaxLogRecords == 3

Years == {1996, 1997}

BatchFormTypes == {"10-k", "10-q"}

File(ft, year, qtr, stem) ==
  [form |-> ft, year |-> year, qtr |-> qtr, stem |-> stem]

\* an annual filing with an MD&A heading and a doubly encoded ampersand; a
\* quarterly filing with an Item 1 heading and a paragraph tag; a filing
\* whose own name holds an underscore
Corpus ==
  [f \in {File("10-k", 1996, 1, <<"a">>), File("10-q", 1997, 2, <<"b">>),
          File("10-k", 1996, 1, <<"c", "x">>)} |->
    IF f.stem = <<"a">>
    THEN Item7 \o <<"&", "a", "m", "p", ";", "a", "m", "p", ";">>
    ELSE IF f.stem = <<"b">>
    THEN Item1 \o P_TAG
    ELSE <<"a">>]

InitBatch ==
  /\ pc = "corpus"
  /\ txt = <<>>
  /\ form_type = "10-k"
  /\ selected = <<>>
  /\ counts = <<0, 0>>
  /\ ret = <<>>
  /\ \E present \in (SUBSET DOMAIN Corpus) \ {{}} :
       fs = [f \in present |-> Corpus[f]]
  /\ logs = <<>>
  /\ reads = {}
  /\ produced = {}

Run(op, start, end, ft) ==
  /\ pc \in {"corpus", "clean_filings", "extract_mda", "extract_item1"}
  /\ Len(logs) < MaxLogRecords
  /\ pc' = op
  /\ form_type' = ft
  /\ LET after == run(op, start, end, ft)
     IN  /\ fs' = after.fs
         /\ logs' = after.logs
         /\ produced' = after.produced
         /\ reads' = after.listed
  /\ UNCHANGED <<txt, selected, counts, ret>>

\* clean_filings(start, end, form_type)
CleanFilings ==
  \E start, end \in Years, ft \in BatchFormTypes :
    start <= end /\ Run("clean_filings", start, end, ft)

\* extract_mda(start, end, form_type)
ExtractMda ==
  \E start, end \in Years, ft \in BatchFormTypes :
    start <= end /\ Run("extract_mda", start, end, ft)

\* extract_item1(start, end, form_type)
ExtractItem1 ==
  \E start, end \in Years, ft \in BatchFormTypes :
    start <= end /\ Run("extract_item1", start, end, ft)

NextBatch == CleanFilings \/ ExtractMda \/ ExtractItem1

SpecBatch == InitBatch /\ [][NextBatch]_vars

(***************************************************************************)
(* The whole model: a call of one of the text functions on an input, or a  *)
(* sequence of runs over a corpus                                          *)
(***************************************************************************)
Init == InitExtract \/ InitTab \/ InitNorm \/ InitBatch

Next == NextExtract \/ NextTab \/ NextNorm \/ NextBatch

Spec == Init /\ [][Next]_vars

(***************************************************************************)
(* Claims about the batch drivers, checked under SpecBatch                 *)
(***************************************************************************)
\* the records this step appended to the logs
Appended == SubSeq(logs', Len(logs) + 1, Len(logs'))

\* this step left file f as it was and appended no record for it
Skipped(f) ==
  /\ f \in DOMAIN fs'
  /\ fs'[f] = fs[f]
  /\ \A k \in 1..Len(Appended) : Appended[k].target # f

\* the kind of artifact an operation produces
KindOf(op) ==
  IF op = "clean_filings" THEN "normalized"
  ELSE IF op = "extract_mda" THEN "mda"
  ELSE "item1"

\* C9 as stated: a run of any of the three operations skips every document
\* whose target artifact for that operation already exists: the artifact is
\* left unchanged and no log record is appended for it.  For clean_filings
\* the artifact is the normalized text an earlier run stored under the
\* document's own name.
C9_EveryRunSkipsExisting ==
  [][\A r \in produced :
       (r.kind = KindOf(pc') /\ r.path \in DOMAIN fs) => Skipped(r.path)]_vars

\* C9 amended: a run of extract_mda or extract_item1 skips every document
\* whose _mda or _item1 file already exists, leaving the file unchanged and
\* appending no log record for it; a run of clean_filings skips nothing: it
\* rewrites in place every filing of the range, normalized before or not,
\* and appends a log record for each.
C9_ExtractRunsSkipExisting ==
  [][/\ pc' \in {"extract_mda", "extract_item1"} =>
          \A f \in DOMAIN fs :
            (HasUnderscore(f) /\ f.stem[Len(f.stem)] = KindOf(pc'))
              => Skipped(f)
     /\ pc' = "clean_filings" =>
          /\ Len(Appended) = Cardinality(reads')
          /\ \A f \in reads' :
               \E k \in 1..Len(Appended) : Appended[k].target = f]_vars

\* C9 witness: extract_mda has just run over a filing whose _mda file an
\* earlier run had produced (a clean_filings record is the last of the
\* logs, so this run appended nothing), and the logs hold one record for
\* that file.
C9_SecondExtractSkipped ==
  /\ pc = "extract_mda"
  /\ Len(logs) >= 2
  /\ logs[Len(logs)].file[2] = "log_parse.txt"
  /\ \E f \in reads :
       /\ ArtifactPath(f, "mda") \in DOMAIN fs
       /\ Cardinality({k \in 1..Len(logs) :
                         logs[k].target = ArtifactPath(f, "mda")}) = 1

\* C10: no run lists as an input document a file that an earlier run wrote
\* as a derived artifact; no derived artifact is normalized in place and no
\* artifact of an artifact is created.
C10_ArtifactsNeverInputs ==
  /\ \A r \in produced : r.kind \in {"mda", "item1"} => r.path \notin reads
  /\ \A r \in produced :
       r.kind = "normalized" =>
         [path |-> r.path, kind |-> "mda"] \notin produced
         /\ [path |-> r.path, kind |-> "item1"] \notin produced
  /\ \A f \in DOMAIN fs :
       ~(/\ Len(f.stem) >= 3
         /\ f.stem[Len(f.stem)] \in {"mda", "item1"}
         /\ f.stem[Len(f.stem) - 1] \in {"mda", "item1"})

\* C10 witness: clean_filings has just run over a directory that holds the
\* _mda and the _item1 file of a filing it listed.
C10_RunOverDirectoryWithArtifacts ==
  /\ pc = "clean_filings"
  /\ \E f \in reads :
       /\ [path |-> ArtifactPath(f, "mda"), kind |-> "mda"] \in produced
       /\ [path |-> ArtifactPath(f, "item1"), kind |-> "item1"] \in produced
       /\ [path |-> f, kind |-> "normalized"] \in produced

====
